---- MODULE Spec2Model ----
(***************************************************************************)
(* LibPinyinBackEnd (src/src/PYLibPinyin.cc): the process-wide backend     *)
(* that owns the Pinyin and the Bopomofo (chewing) libpinyin contexts,     *)
(* applies the configuration to them on every allocation and debounces     *)
(* the saving of the user database with a GLib timeout source.             *)
(*                                                                         *)
(* libpinyin (pinyin_init, pinyin_save, ...) and GLib (g_timer_*,          *)
(* g_timeout_add_seconds, g_source_remove) are collaborators: the model    *)
(* keeps their state (contexts, instances, sources) and records, for the   *)
(* most recent backend operation, the sequence of collaborator calls it    *)
(* made (lastCall.calls).                                                  *)
(*                                                                         *)
(* Time is counted in seconds and advances by whole intervals of           *)
(* LIBPINYIN_SAVE_TIMEOUT seconds, measured from the registration of the   *)
(* timeout source; modified() may also be called a fraction of a second    *)
(* after such a point (its `late` input), so that elapsed times with a     *)
(* fractional part occur.                                                  *)
(***************************************************************************)
EXTENDS Integers, Sequences, FiniteSets, Bags, TLC

VARIABLES
    status,      \* "running", or how the process died: "aborted" (g_assert), "crashed" (NULL context used)
    m_instance,  \* LibPinyinBackEnd::m_instance: NULL or the heap object it owns
    objects,     \* the LibPinyinBackEnd objects that exist: object |-> its fields
    contexts,    \* libpinyin: the pinyin_context_t that exist: context |-> [scheme, options]
    instances,   \* libpinyin: bag of the outstanding pinyin_instance_t, each [family, context]
    sources,     \* GLib main loop: the registered timeout sources [id, data, remaining]
    hist,        \* history of the live backend (calls counted since its construction)
    lastCall     \* the most recent operation, its inputs and its collaborator calls

vars == <<status, m_instance, objects, contexts, instances, sources, hist, lastCall>>

-----------------------------------------------------------------------------
(* Bounds of the model *)

\* pinyin_init calls per family and backend lifetime
MaxInitCalls == 2
\* outstanding instances, where the operations on the contexts or the save are explored
MaxInstances == 1
\* outstanding instances, where the instances are explored
MaxOutstanding == 2

-----------------------------------------------------------------------------
(* Program constants *)

NULL == 0
\* a pointer to a context that pinyin_fini has released
Dangling == -1

LIBPINYIN_SAVE_TIMEOUT == 5 * 60

\* static LibPinyinBackEnd libpinyin_backend: the object of static storage
libpinyin_backend == 1
\* the object `new LibPinyinBackEnd` yields in init()
HeapBackend == 2

Families == {"Pinyin", "Chewing"}

double_pinyin_options ==
    << [double_pinyin_keyboard |-> 0, scheme |-> "DOUBLE_PINYIN_MS"],
       [double_pinyin_keyboard |-> 1, scheme |-> "DOUBLE_PINYIN_ZRM"],
       [double_pinyin_keyboard |-> 2, scheme |-> "DOUBLE_PINYIN_ABC"],
       [double_pinyin_keyboard |-> 3, scheme |-> "DOUBLE_PINYIN_ZIGUANG"],
       [double_pinyin_keyboard |-> 4, scheme |-> "DOUBLE_PINYIN_PYJJ"],
       [double_pinyin_keyboard |-> 5, scheme |-> "DOUBLE_PINYIN_XHE"] >>

chewing_options ==
    << [bopomofo_keyboard |-> 0, scheme |-> "CHEWING_STANDARD"],
       [bopomofo_keyboard |-> 1, scheme |-> "CHEWING_GINYIEH"],
       [bopomofo_keyboard |-> 2, scheme |-> "CHEWING_ETEN"],
       [bopomofo_keyboard |-> 3, scheme |-> "CHEWING_IBM"] >>

USE_RESPLIT_TABLE == "USE_RESPLIT_TABLE"

\* g_build_filename (g_get_home_dir(), ".cache", "ibus", "libpinyin", NULL)
PinyinUserDir == "~/.cache/ibus/libpinyin"
\* g_build_filename (g_get_home_dir(), ".cache", "ibus", "libbopomofo", NULL)
ChewingUserDir == "~/.cache/ibus/libbopomofo"
SystemDir == "/usr/share/libpinyin/data"

-----------------------------------------------------------------------------
(* Inputs *)

\* Config::doublePinyinSchema (): both ends of the table and a value beyond each
PinyinSelectors == {-1, 0, 5, 6}
\* Config::bopomofoKeyboardMapping ()
ChewingSelectors == {-1, 0, 3, 4}
\* Config::option (): a bitmask, as the set of its bits
ConfigOptions == {{}, {"DYNAMIC_ADJUST"}}
\* g_mkdir_with_parents: 0 on success, -1 on failure
MkdirResults == {0, -1}

-----------------------------------------------------------------------------
(* Helpers *)

\* one collaborator call: function, family, string argument, options, result
Call(fn, family, arg, options, ret) ==
    [fn |-> fn, family |-> family, arg |-> arg, options |-> options, ret |-> ret]

Op(op, family, map, option, pre, calls, ret) ==
    [op |-> op, family |-> family, map |-> map, option |-> option,
     pre |-> pre, calls |-> calls, ret |-> ret]

Bool(x) == IF x THEN 1 ELSE 0

\* g_timer_new, g_timer_start: a timer started at the current point of the
\* clock, or (late) a fraction of a second after it
g_timer_start(late) == [since |-> 0, late |-> late]

\* the history of a backend just constructed: per family the pinyin_init calls
\* made, the contexts they returned and whether allocInstance was called;
\* whether modified() was called and saveUserDB() not since; the time since
\* the last modified() call
NewHist ==
    [init_calls |-> [f \in Families |-> 0],
     created |-> [f \in Families |-> 0],
     allocs |-> [f \in Families |-> FALSE],
     dirty |-> FALSE,
     since_modified |-> g_timer_start(FALSE)]

-----------------------------------------------------------------------------
(* Collaborators *)

\* pinyin_init: a context the engine has not handed out and no instance still
\* refers to.  Which one is immaterial; the model takes the first odd number
\* for m_pinyin_context and the first even one for m_chewing_context.
FreshContext(family) ==
    LET used == DOMAIN contexts \cup {i.context : i \in BagToSet(instances)}
        mine(c) == c % 2 = (IF family = "Pinyin" THEN 1 ELSE 0)
    IN  CHOOSE c \in 1 .. (2 * Cardinality(used) + 2) :
            /\ mine(c) /\ c \notin used
            /\ \A d \in 1 .. (c - 1) : mine(d) => d \in used

\* g_timeout_add_seconds: a source id (> 0) no registered source has
FreshSource ==
    LET used == {s.id : s \in sources}
    IN  CHOOSE i \in 1 .. (Cardinality(used) + 1) :
            i \notin used /\ \A j \in 1 .. (i - 1) : j \in used

\* g_timer_elapsed: a double, here its whole seconds and whether a fraction of
\* a second follows them.  A timer started late has run a fraction of a
\* second less than the clock has advanced since.
g_timer_elapsed(timer) ==
    IF timer.late /\ timer.since > 0
    THEN [whole |-> timer.since - 1, fraction |-> TRUE]
    ELSE [whole |-> timer.since, fraction |-> FALSE]

\* (guint) of a double: the fraction is dropped
guint(double) == double.whole

\* seconds more on the clock for a timer.  Readings of cap seconds and more
\* are not told apart.
Elapse(timer, seconds, cap) ==
    IF g_timer_elapsed(timer).whole >= cap
    THEN timer
    ELSE [timer EXCEPT !.since = @ + seconds]

-----------------------------------------------------------------------------
(* LibPinyinBackEnd *)

\* LibPinyinBackEnd::LibPinyinBackEnd
LibPinyinBackEnd ==
    [m_timeout_id |-> 0, m_timer |-> g_timer_start(FALSE),
     m_pinyin_context |-> NULL, m_chewing_context |-> NULL]

\* the context member of family f
ContextOf(b, f) == IF f = "Pinyin" THEN b.m_pinyin_context ELSE b.m_chewing_context

\* what pinyin_save may return for the contexts of b (TRUE stands for a family
\* that has none: it is not saved)
SaveResults(b) ==
    {r \in [Families -> BOOLEAN] : \A f \in Families : ContextOf(b, f) = NULL => r[f]}

\* saveUserDB reporting whether every pinyin_save succeeded
saveUserDB_reportFailure(b, rets) ==
    LET pinyin  == IF b.m_pinyin_context # NULL
                   THEN << Call("pinyin_save", "Pinyin", "", {}, Bool(rets["Pinyin"])) >>
                   ELSE << >>
        chewing == IF b.m_chewing_context # NULL
                   THEN << Call("pinyin_save", "Chewing", "", {}, Bool(rets["Chewing"])) >>
                   ELSE << >>
    IN  [calls |-> << Call("saveUserDB", "", "", {}, 1) >> \o pinyin \o chewing,
         ret |-> \A f \in Families : rets[f]]

\* saveUserDB giving up at the first pinyin_save that fails, and reporting it
saveUserDB_stop(b, rets) ==
    LET pinyin  == IF b.m_pinyin_context # NULL
                   THEN << Call("pinyin_save", "Pinyin", "", {}, Bool(rets["Pinyin"])) >>
                   ELSE << >>
        failed  == b.m_pinyin_context # NULL /\ ~rets["Pinyin"]
        chewing == IF b.m_chewing_context # NULL /\ ~failed
                   THEN << Call("pinyin_save", "Chewing", "", {}, Bool(rets["Chewing"])) >>
                   ELSE << >>
    IN  [calls |-> << Call("saveUserDB", "", "", {}, Bool(~failed)) >> \o pinyin \o chewing,
         ret |-> ~failed]

\* LibPinyinBackEnd::saveUserDB; rets[f] is what pinyin_save returns for
\* family f's context.  The value is [calls, ret]; the calls start with the
\* call of saveUserDB itself.
saveUserDB(b, rets) ==
    LET pinyin  == IF b.m_pinyin_context # NULL
                   THEN << Call("pinyin_save", "Pinyin", "", {}, Bool(rets["Pinyin"])) >>
                   ELSE << >>
        chewing == IF b.m_chewing_context # NULL
                   THEN << Call("pinyin_save", "Chewing", "", {}, Bool(rets["Chewing"])) >>
                   ELSE << >>
    IN  [calls |-> << Call("saveUserDB", "", "", {}, 1) >> \o pinyin \o chewing,
         ret |-> TRUE]

\* setPinyinOptions setting the scheme only of a context that has none yet
\* (the configuration applied at creation, not on every allocation)
setPinyinOptions_unsetOnly(b, ctxs, map, option) ==
    IF b.m_pinyin_context = NULL
    THEN [contexts |-> ctxs, calls |-> << >>, ret |-> FALSE]
    ELSE LET c       == b.m_pinyin_context
             matches == IF ctxs[c].scheme = "DEFAULT"
                        THEN SelectSeq(double_pinyin_options,
                                       LAMBDA e : e.double_pinyin_keyboard = map)
                        ELSE << >>
             set     == [i \in 1 .. Len(matches) |->
                            Call("pinyin_set_double_pinyin_scheme", "Pinyin",
                                 matches[i].scheme, {}, 1)]
             c1      == IF Len(matches) > 0
                        THEN [ctxs EXCEPT ![c].scheme = matches[Len(matches)].scheme]
                        ELSE ctxs
             options == option \cup {USE_RESPLIT_TABLE}
         IN  [contexts |-> [c1 EXCEPT ![c].options = options],
              calls |-> set \o << Call("pinyin_set_options", "Pinyin", "", options, 1) >>,
              ret |-> TRUE]

\* LibPinyinBackEnd::setPinyinOptions on engine state ctxs, with
\* map = config->doublePinyinSchema () and option = config->option ().
\* The value is [contexts, calls, ret].
setPinyinOptions(b, ctxs, map, option) ==
    IF b.m_pinyin_context = NULL
    THEN [contexts |-> ctxs, calls |-> << >>, ret |-> FALSE]
    ELSE LET c       == b.m_pinyin_context
             matches == SelectSeq(double_pinyin_options,
                                  LAMBDA e : e.double_pinyin_keyboard = map)
             set     == [i \in 1 .. Len(matches) |->
                            Call("pinyin_set_double_pinyin_scheme", "Pinyin",
                                 matches[i].scheme, {}, 1)]
             c1      == IF Len(matches) > 0
                        THEN [ctxs EXCEPT ![c].scheme = matches[Len(matches)].scheme]
                        ELSE ctxs
             options == option \cup {USE_RESPLIT_TABLE}
         IN  [contexts |-> [c1 EXCEPT ![c].options = options],
              calls |-> set \o << Call("pinyin_set_options", "Pinyin", "", options, 1) >>,
              ret |-> TRUE]

\* setChewingOptions forcing USE_RESPLIT_TABLE as setPinyinOptions does
setChewingOptions_resplit(b, ctxs, map, option) ==
    IF b.m_chewing_context = NULL
    THEN [contexts |-> ctxs, calls |-> << >>, ret |-> FALSE]
    ELSE LET c       == b.m_chewing_context
             matches == SelectSeq(chewing_options,
                                  LAMBDA e : e.bopomofo_keyboard = map)
             set     == [i \in 1 .. Len(matches) |->
                            Call("pinyin_set_chewing_scheme", "Chewing",
                                 matches[i].scheme, {}, 1)]
             c1      == IF Len(matches) > 0
                        THEN [ctxs EXCEPT ![c].scheme = matches[Len(matches)].scheme]
                        ELSE ctxs
             options == option \cup {USE_RESPLIT_TABLE}
         IN  [contexts |-> [c1 EXCEPT ![c].options = options],
              calls |-> set \o << Call("pinyin_set_options", "Chewing", "", options, 1) >>,
              ret |-> TRUE]

\* setChewingOptions falling back to the first entry of chewing_options for a
\* selector the table does not hold
setChewingOptions_fallback(b, ctxs, map, option) ==
    IF b.m_chewing_context = NULL
    THEN [contexts |-> ctxs, calls |-> << >>, ret |-> FALSE]
    ELSE LET c       == b.m_chewing_context
             found   == SelectSeq(chewing_options,
                                  LAMBDA e : e.bopomofo_keyboard = map)
             matches == IF Len(found) > 0 THEN found ELSE << chewing_options[1] >>
             set     == [i \in 1 .. Len(matches) |->
                            Call("pinyin_set_chewing_scheme", "Chewing",
                                 matches[i].scheme, {}, 1)]
             c1      == [ctxs EXCEPT ![c].scheme = matches[Len(matches)].scheme]
         IN  [contexts |-> [c1 EXCEPT ![c].options = option],
              calls |-> set \o << Call("pinyin_set_options", "Chewing", "", option, 1) >>,
              ret |-> TRUE]

\* LibPinyinBackEnd::setChewingOptions, with
\* map = config->bopomofoKeyboardMapping () and option = config->option ()
setChewingOptions(b, ctxs, map, option) ==
    IF b.m_chewing_context = NULL
    THEN [contexts |-> ctxs, calls |-> << >>, ret |-> FALSE]
    ELSE LET c       == b.m_chewing_context
             matches == SelectSeq(chewing_options,
                                  LAMBDA e : e.bopomofo_keyboard = map)
             set     == [i \in 1 .. Len(matches) |->
                            Call("pinyin_set_chewing_scheme", "Chewing",
                                 matches[i].scheme, {}, 1)]
             c1      == IF Len(matches) > 0
                        THEN [ctxs EXCEPT ![c].scheme = matches[Len(matches)].scheme]
                        ELSE ctxs
         IN  [contexts |-> [c1 EXCEPT ![c].options = option],
              calls |-> set \o << Call("pinyin_set_options", "Chewing", "", option, 1) >>,
              ret |-> TRUE]

\* pinyin_fini leaves the instances of the context with a dangling m_context;
\* all dangling pointers are the one value Dangling
Dangle(bag, gone) ==
    LET image(i) == IF i.context \in gone THEN [i EXCEPT !.context = Dangling] ELSE i
        olds(j)  == {i \in BagToSet(bag) : image(i) = j}
        Sum[S \in SUBSET BagToSet(bag)] ==
            IF S = {} THEN 0
            ELSE LET x == CHOOSE x \in S : TRUE IN bag[x] + Sum[S \ {x}]
    IN  [j \in {image(i) : i \in BagToSet(bag)} |-> Sum[olds(j)]]

\* the destructor without its test of m_timeout_id: the contexts are released
\* unsaved and the source stays registered
Destructor_nosave(b, rets) ==
    LET finiP   == IF b.m_pinyin_context # NULL
                   THEN << Call("pinyin_fini", "Pinyin", "", {}, b.m_pinyin_context) >>
                   ELSE << >>
        finiC   == IF b.m_chewing_context # NULL
                   THEN << Call("pinyin_fini", "Chewing", "", {}, b.m_chewing_context) >>
                   ELSE << >>
        gone    == {b.m_pinyin_context, b.m_chewing_context}
    IN  [sources |-> sources,
         contexts |-> [c \in DOMAIN contexts \ gone |-> contexts[c]],
         instances |-> Dangle(instances, gone \ {NULL}),
         calls |-> << Call("g_timer_destroy", "", "", {}, 1) >> \o finiP \o finiC]

\* the destructor saving but leaving the pending source registered
Destructor_noRemove(b, rets) ==
    LET pending == b.m_timeout_id # 0
        save    == IF pending THEN saveUserDB(b, rets).calls ELSE << >>
        finiP   == IF b.m_pinyin_context # NULL
                   THEN << Call("pinyin_fini", "Pinyin", "", {}, b.m_pinyin_context) >>
                   ELSE << >>
        finiC   == IF b.m_chewing_context # NULL
                   THEN << Call("pinyin_fini", "Chewing", "", {}, b.m_chewing_context) >>
                   ELSE << >>
        gone    == {b.m_pinyin_context, b.m_chewing_context}
    IN  [sources |-> sources,
         contexts |-> [c \in DOMAIN contexts \ gone |-> contexts[c]],
         instances |-> Dangle(instances, gone \ {NULL}),
         calls |-> << Call("g_timer_destroy", "", "", {}, 1) >> \o save \o finiP \o finiC]

\* the destructor releasing the Pinyin context only
Destructor_pinyinOnly(b, rets) ==
    LET pending == b.m_timeout_id # 0
        save    == IF pending
                   THEN saveUserDB(b, rets).calls
                        \o << Call("g_source_remove", "", "", {}, b.m_timeout_id) >>
                   ELSE << >>
        finiP   == IF b.m_pinyin_context # NULL
                   THEN << Call("pinyin_fini", "Pinyin", "", {}, b.m_pinyin_context) >>
                   ELSE << >>
        gone    == {b.m_pinyin_context}
    IN  [sources |-> IF pending THEN {s \in sources : s.id # b.m_timeout_id} ELSE sources,
         contexts |-> [c \in DOMAIN contexts \ gone |-> contexts[c]],
         instances |-> Dangle(instances, gone \ {NULL}),
         calls |-> << Call("g_timer_destroy", "", "", {}, 1) >> \o save \o finiP]

\* LibPinyinBackEnd::~LibPinyinBackEnd of object b.
\* The value is [sources, contexts, instances, calls].
Destructor(b, rets) ==
    LET pending == b.m_timeout_id # 0
        save    == IF pending
                   THEN saveUserDB(b, rets).calls
                        \o << Call("g_source_remove", "", "", {}, b.m_timeout_id) >>
                   ELSE << >>
        finiP   == IF b.m_pinyin_context # NULL
                   THEN << Call("pinyin_fini", "Pinyin", "", {}, b.m_pinyin_context) >>
                   ELSE << >>
        finiC   == IF b.m_chewing_context # NULL
                   THEN << Call("pinyin_fini", "Chewing", "", {}, b.m_chewing_context) >>
                   ELSE << >>
        gone    == {b.m_pinyin_context, b.m_chewing_context}
    IN  [sources |-> IF pending THEN {s \in sources : s.id # b.m_timeout_id} ELSE sources,
         contexts |-> [c \in DOMAIN contexts \ gone |-> contexts[c]],
         instances |-> Dangle(instances, gone \ {NULL}),
         calls |-> << Call("g_timer_destroy", "", "", {}, 1) >> \o save \o finiP \o finiC]

-----------------------------------------------------------------------------
(* Operations *)

Init ==
    /\ status = "running"
    /\ m_instance = NULL
    /\ objects = (libpinyin_backend :> LibPinyinBackEnd)
    /\ contexts = << >>
    /\ instances = EmptyBag
    /\ sources = {}
    /\ hist = NewHist
    /\ lastCall = Op("start", "", 0, {}, "", << >>, 0)

\* init without its assertion: m_instance.reset (backend) replaces the
\* registered object
init_unchecked ==
    /\ status = "running"
    /\ m_instance' = HeapBackend
    /\ objects' = [o \in DOMAIN objects \cup {HeapBackend} |->
                      IF o = HeapBackend THEN LibPinyinBackEnd ELSE objects[o]]
    /\ hist' = NewHist
    /\ lastCall' = Op("init", "", 0, {}, "", << >>, 0)
    /\ UNCHANGED <<status, contexts, instances, sources>>

\* LibPinyinBackEnd::init
init ==
    /\ status = "running"
    /\ IF m_instance # NULL
       THEN \* g_assert (NULL == m_instance.get ()) fails: abort ()
            /\ status' = "aborted"
            /\ UNCHANGED <<m_instance, objects, hist>>
       ELSE /\ m_instance' = HeapBackend
            /\ objects' = objects @@ (HeapBackend :> LibPinyinBackEnd)
            /\ hist' = NewHist
            /\ UNCHANGED status
    /\ lastCall' = Op("init", "", 0, {}, "", << >>, 0)
    /\ UNCHANGED <<contexts, instances, sources>>

\* finalize with m_instance.release () for m_instance.reset (): the object is
\* given up, not destroyed
finalize_release(rets) ==
    /\ status = "running"
    /\ rets \in SaveResults(LibPinyinBackEnd)
    /\ m_instance' = NULL
    /\ lastCall' = Op("finalize", "", 0, {}, "", << >>, 0)
    /\ hist' = NewHist
    /\ UNCHANGED <<status, objects, contexts, instances, sources>>

\* LibPinyinBackEnd::finalize: m_instance.reset () runs the destructor of the
\* object m_instance owns, if it owns one
finalize(rets) ==
    /\ status = "running"
    /\ IF m_instance = NULL
       THEN /\ lastCall' = Op("finalize", "", 0, {}, "", << >>, 0)
            /\ UNCHANGED <<m_instance, objects, contexts, instances, sources>>
       ELSE LET d == Destructor(objects[m_instance], rets)
            IN  /\ rets \in SaveResults(objects[m_instance])
                /\ m_instance' = NULL
                /\ objects' = [o \in DOMAIN objects \ {m_instance} |-> objects[o]]
                /\ contexts' = d.contexts
                /\ instances' = d.instances
                /\ sources' = d.sources
                /\ lastCall' = Op("finalize", "", g_timer_elapsed(hist.since_modified).whole,
                                  {}, "", d.calls, 1)
    /\ hist' = NewHist
    /\ UNCHANGED status

\* pinyin_alloc_instance (context).  With a NULL context the engine either
\* hands out an instance that refers to no context or dereferences NULL
\* (deref); the process then dies.
pinyin_alloc_instance(family, context, deref) ==
    /\ status' = IF context = NULL /\ deref THEN "crashed" ELSE "running"
    /\ instances' = IF context = NULL /\ deref
                    THEN instances
                    ELSE instances (+) SetToBag({[family |-> family, context |-> context]})

\* The inputs an allocation does not consult have one value: g_mkdir_with_parents
\* and pinyin_init are called only to create the context, and the engine
\* dereferences its context only if it is NULL.
Consulted(create, retval, init_ok, context, deref) ==
    /\ ~create => retval = 0 /\ init_ok
    /\ context # NULL => ~deref

\* allocPinyinInstance without its test `NULL == m_pinyin_context`: the
\* context is created on every allocation
createPinyinContext_always(b, retval, init_ok) ==
    LET userdir == IF retval # 0 THEN "" ELSE PinyinUserDir
        context == IF init_ok THEN FreshContext("Pinyin") ELSE NULL
    IN  [create |-> TRUE, context |-> context,
         calls |-> << Call("g_mkdir_with_parents", "Pinyin", PinyinUserDir, {}, retval),
                      Call("pinyin_init", "Pinyin", userdir, {}, context) >>]

\* LibPinyinBackEnd::allocPinyinInstance, the creation of the context.  The
\* value is [create, context, calls]: whether pinyin_init is called,
\* m_pinyin_context afterwards and the calls made.
createPinyinContext(b, retval, init_ok) ==
    LET create  == NULL = b.m_pinyin_context
        userdir == IF retval # 0 THEN "" ELSE PinyinUserDir
        context == IF ~create THEN b.m_pinyin_context
                   ELSE IF init_ok THEN FreshContext("Pinyin") ELSE NULL
    IN  [create |-> create, context |-> context,
         calls |-> IF create
                   THEN << Call("g_mkdir_with_parents", "Pinyin", PinyinUserDir, {}, retval),
                           Call("pinyin_init", "Pinyin", userdir, {}, context) >>
                   ELSE << >>]

\* allocChewingInstance taking the Pinyin context, where there is one, for
\* m_chewing_context instead of creating its own
createChewingContext_shared(b, retval, init_ok) ==
    LET create  == NULL = b.m_chewing_context /\ NULL = b.m_pinyin_context
        context == IF NULL # b.m_chewing_context THEN b.m_chewing_context
                   ELSE IF NULL # b.m_pinyin_context THEN b.m_pinyin_context
                   ELSE IF init_ok THEN FreshContext("Chewing") ELSE NULL
    IN  [create |-> create, context |-> context,
         calls |-> IF create
                   THEN << Call("g_mkdir_with_parents", "Chewing", ChewingUserDir, {}, retval),
                           Call("pinyin_init", "Chewing", "", {}, context) >>
                   ELSE << >>]

\* LibPinyinBackEnd::allocChewingInstance, the creation of the context
createChewingContext(b, retval, init_ok) ==
    LET create  == NULL = b.m_chewing_context
        context == IF ~create THEN b.m_chewing_context
                   ELSE IF init_ok THEN FreshContext("Chewing") ELSE NULL
    IN  [create |-> create, context |-> context,
         calls |-> IF create
                   THEN << Call("g_mkdir_with_parents", "Chewing", ChewingUserDir, {}, retval),
                           Call("pinyin_init", "Chewing", "", {}, context) >>
                   ELSE << >>]

\* pinyin_init has returned context: the engine holds it, with its defaults
pinyin_init(ctxs, context) ==
    IF context = NULL \/ context \in DOMAIN ctxs
    THEN ctxs
    ELSE ctxs @@ (context :> [scheme |-> "DEFAULT", options |-> {}])

\* LibPinyinBackEnd::allocPinyinInstance.  retval is what g_mkdir_with_parents
\* returns, init_ok whether pinyin_init returns a context, map and option
\* what the Config returns.
allocPinyinInstance(retval, init_ok, map, option, deref) ==
    /\ status = "running"
    /\ m_instance # NULL
    /\ LET b   == objects[m_instance]
           new == createPinyinContext(b, retval, init_ok)
           b1  == [b EXCEPT !.m_pinyin_context = new.context]
           set == setPinyinOptions(b1, pinyin_init(contexts, new.context), map, option)
       IN  /\ new.create => hist.init_calls["Pinyin"] < MaxInitCalls
           /\ Consulted(new.create, retval, init_ok, new.context, deref)
           /\ objects' = [objects EXCEPT ![m_instance] = b1]
           /\ contexts' = set.contexts
           /\ pinyin_alloc_instance("Pinyin", new.context, deref)
           /\ hist' = [hist EXCEPT
                         !.init_calls["Pinyin"] = @ + Bool(new.create),
                         !.created["Pinyin"] = @ + Bool(new.create /\ new.context # NULL),
                         !.allocs["Pinyin"] = TRUE]
           /\ lastCall' = Op("allocInstance", "Pinyin", map, option,
                             IF b.m_pinyin_context = NULL THEN ""
                             ELSE contexts[b.m_pinyin_context].scheme,
                             new.calls \o set.calls
                                 \o << Call("pinyin_alloc_instance", "Pinyin", "", {}, new.context) >>,
                             new.context)
    /\ UNCHANGED <<m_instance, sources>>

\* LibPinyinBackEnd::allocChewingInstance
allocChewingInstance(retval, init_ok, map, option, deref) ==
    /\ status = "running"
    /\ m_instance # NULL
    /\ LET b   == objects[m_instance]
           new == createChewingContext(b, retval, init_ok)
           b1  == [b EXCEPT !.m_chewing_context = new.context]
           set == setChewingOptions(b1, pinyin_init(contexts, new.context), map, option)
       IN  /\ new.create => hist.init_calls["Chewing"] < MaxInitCalls
           /\ Consulted(new.create, retval, init_ok, new.context, deref)
           /\ objects' = [objects EXCEPT ![m_instance] = b1]
           /\ contexts' = set.contexts
           /\ pinyin_alloc_instance("Chewing", new.context, deref)
           /\ hist' = [hist EXCEPT
                         !.init_calls["Chewing"] = @ + Bool(new.create),
                         !.created["Chewing"] = @ + Bool(new.create /\ new.context # NULL),
                         !.allocs["Chewing"] = TRUE]
           /\ lastCall' = Op("allocInstance", "Chewing", map, option,
                             IF b.m_chewing_context = NULL THEN ""
                             ELSE contexts[b.m_chewing_context].scheme,
                             new.calls \o set.calls
                                 \o << Call("pinyin_alloc_instance", "Chewing", "", {}, new.context) >>,
                             new.context)
    /\ UNCHANGED <<m_instance, sources>>

\* freePinyinInstance releasing every outstanding instance of the context
freePinyinInstance_all(context) ==
    /\ status = "running"
    /\ m_instance # NULL
    /\ BagIn([family |-> "Pinyin", context |-> context], instances)
    /\ instances' = [i \in BagToSet(instances) \ {[family |-> "Pinyin", context |-> context]}
                        |-> instances[i]]
    /\ lastCall' = Op("freeInstance", "Pinyin", 0, {}, "",
                      << Call("pinyin_free_instance", "Pinyin", "", {}, context) >>, 0)
    /\ UNCHANGED <<status, m_instance, objects, contexts, sources, hist>>

\* LibPinyinBackEnd::freePinyinInstance: pinyin_free_instance (instance), for
\* an outstanding instance of context
freePinyinInstance(context) ==
    /\ status = "running"
    /\ m_instance # NULL
    /\ BagIn([family |-> "Pinyin", context |-> context], instances)
    /\ instances' = instances (-) SetToBag({[family |-> "Pinyin", context |-> context]})
    /\ lastCall' = Op("freeInstance", "Pinyin", 0, {}, "",
                      << Call("pinyin_free_instance", "Pinyin", "", {}, context) >>, 0)
    /\ UNCHANGED <<status, m_instance, objects, contexts, sources, hist>>

\* LibPinyinBackEnd::freeChewingInstance
freeChewingInstance(context) ==
    /\ status = "running"
    /\ m_instance # NULL
    /\ BagIn([family |-> "Chewing", context |-> context], instances)
    /\ instances' = instances (-) SetToBag({[family |-> "Chewing", context |-> context]})
    /\ lastCall' = Op("freeInstance", "Chewing", 0, {}, "",
                      << Call("pinyin_free_instance", "Chewing", "", {}, context) >>, 0)
    /\ UNCHANGED <<status, m_instance, objects, contexts, sources, hist>>

\* modified starting the timer only when it registers the source: the quiet
\* interval is measured from the first modified() call
modifiedOn_norestart(b, late, id) ==
    IF b.m_timeout_id # 0
    THEN [m_timer |-> b.m_timer, m_timeout_id |-> b.m_timeout_id,
          add |-> FALSE,
          calls |-> << >>]
    ELSE [m_timer |-> g_timer_start(late), m_timeout_id |-> id,
          add |-> TRUE,
          calls |-> << Call("g_timer_start", "", "", {}, 1),
                       Call("g_timeout_add_seconds", "", "", {}, id) >>]

\* LibPinyinBackEnd::modified on object b, id being what g_timeout_add_seconds
\* returns if it is called.  The value is [m_timer, m_timeout_id, add, calls]:
\* the two members afterwards, whether a source is registered, the calls made.
modifiedOn(b, late, id) ==
    IF b.m_timeout_id # 0
    THEN [m_timer |-> g_timer_start(late), m_timeout_id |-> b.m_timeout_id,
          add |-> FALSE,
          calls |-> << Call("g_timer_start", "", "", {}, 1) >>]
    ELSE [m_timer |-> g_timer_start(late), m_timeout_id |-> id,
          add |-> TRUE,
          calls |-> << Call("g_timer_start", "", "", {}, 1),
                       Call("g_timeout_add_seconds", "", "", {}, id) >>]

\* LibPinyinBackEnd::modified, called at the current point of the clock or
\* (late) a fraction of a second after it.  The clock's points are those of
\* the registered source, so a call that registers it is not late; nor is a
\* call late while the source is due, or on time after a late one.
modified(late) ==
    /\ status = "running"
    /\ m_instance # NULL
    /\ LET b == objects[m_instance]
           m == modifiedOn(b, late, FreshSource)
       IN  /\ late => b.m_timeout_id # 0 /\ \A s \in sources : s.remaining > 0
           /\ ~late => hist.since_modified # g_timer_start(TRUE)
           /\ objects' = [objects EXCEPT ![m_instance].m_timer = m.m_timer,
                                         ![m_instance].m_timeout_id = m.m_timeout_id]
           /\ sources' = IF m.add
                         THEN sources \cup {[id |-> m.m_timeout_id, data |-> m_instance,
                                             remaining |-> LIBPINYIN_SAVE_TIMEOUT]}
                         ELSE sources
           /\ hist' = [hist EXCEPT !.dirty = TRUE,
                                   !.since_modified = g_timer_start(late)]
           /\ lastCall' = Op("modified", "", Bool(late), {}, "", m.calls, 0)
    /\ UNCHANGED <<status, m_instance, contexts, instances>>

\* whether the calls include one of fn
Called(fn, calls) == \E i \in 1 .. Len(calls) : calls[i].fn = fn

\* timeoutCallback rounding the elapsed time up instead of dropping its
\* fraction
timeoutCallbackOn_roundUp(self, rets) ==
    LET double  == g_timer_elapsed(self.m_timer)
        elapsed == double.whole + Bool(double.fraction)
        save    == saveUserDB(self, rets)
    IN  IF elapsed >= LIBPINYIN_SAVE_TIMEOUT
        THEN IF save.ret
             THEN [elapsed |-> elapsed, m_timeout_id |-> 0,
                   calls |-> save.calls, ret |-> FALSE]
             ELSE [elapsed |-> elapsed, m_timeout_id |-> self.m_timeout_id,
                   calls |-> save.calls, ret |-> TRUE]
        ELSE [elapsed |-> elapsed, m_timeout_id |-> self.m_timeout_id,
              calls |-> << >>, ret |-> TRUE]

\* timeoutCallback as a one-shot: a dispatch before the quiet interval has
\* passed ends the schedule without a save
timeoutCallbackOn_oneShot(self, rets) ==
    LET elapsed == guint(g_timer_elapsed(self.m_timer))
        save    == saveUserDB(self, rets)
    IN  IF elapsed >= LIBPINYIN_SAVE_TIMEOUT
        THEN [elapsed |-> elapsed, m_timeout_id |-> 0,
              calls |-> save.calls, ret |-> FALSE]
        ELSE [elapsed |-> elapsed, m_timeout_id |-> 0,
              calls |-> << >>, ret |-> FALSE]

\* timeoutCallback not resetting m_timeout_id after the save
timeoutCallbackOn_keepId(self, rets) ==
    LET elapsed == guint(g_timer_elapsed(self.m_timer))
        save    == saveUserDB(self, rets)
    IN  IF elapsed >= LIBPINYIN_SAVE_TIMEOUT
        THEN [elapsed |-> elapsed, m_timeout_id |-> self.m_timeout_id,
              calls |-> save.calls, ret |-> ~save.ret]
        ELSE [elapsed |-> elapsed, m_timeout_id |-> self.m_timeout_id,
              calls |-> << >>, ret |-> TRUE]

\* LibPinyinBackEnd::timeoutCallback with data = self.  The value is
\* [elapsed, m_timeout_id, calls, ret]: the elapsed time read, m_timeout_id
\* afterwards, the calls made and what the callback returns.
timeoutCallbackOn(self, rets) ==
    LET elapsed == guint(g_timer_elapsed(self.m_timer))
        save    == saveUserDB(self, rets)
    IN  IF elapsed >= LIBPINYIN_SAVE_TIMEOUT
        THEN IF save.ret
             THEN [elapsed |-> elapsed, m_timeout_id |-> 0,
                   calls |-> save.calls, ret |-> FALSE]
             ELSE [elapsed |-> elapsed, m_timeout_id |-> self.m_timeout_id,
                   calls |-> save.calls, ret |-> TRUE]
        ELSE [elapsed |-> elapsed, m_timeout_id |-> self.m_timeout_id,
              calls |-> << >>, ret |-> TRUE]

\* The main loop dispatches the due source s: LibPinyinBackEnd::timeoutCallback
\* with data = s.data.  TRUE keeps the source, re-armed for another interval;
\* FALSE removes it.
timeoutCallback(s, rets) ==
    /\ status = "running"
    /\ s \in sources
    /\ s.remaining = 0
    /\ IF s.data \notin DOMAIN objects
       THEN \* self is a destroyed object
            /\ status' = "crashed"
            /\ lastCall' = Op("timeoutCallback", "", 0, {}, "", << >>, 0)
            /\ UNCHANGED <<objects, sources, hist>>
       ELSE LET self == objects[s.data]
                t    == timeoutCallbackOn(self, rets)
            IN  /\ rets \in SaveResults(self)
                /\ objects' = [objects EXCEPT ![s.data].m_timeout_id = t.m_timeout_id]
                /\ sources' = IF t.ret
                              THEN (sources \ {s}) \cup
                                       {[s EXCEPT !.remaining = LIBPINYIN_SAVE_TIMEOUT]}
                              ELSE sources \ {s}
                /\ hist' = [hist EXCEPT !.dirty = @ /\ ~Called("saveUserDB", t.calls)]
                /\ lastCall' = Op("timeoutCallback", "", t.elapsed, {}, "", t.calls, Bool(t.ret))
                /\ UNCHANGED status
    /\ UNCHANGED <<m_instance, contexts, instances>>

\* LIBPINYIN_SAVE_TIMEOUT seconds pass; the main loop lets no due source wait.
\* hist.since_modified runs while a save is scheduled.
Advance ==
    LET d == LIBPINYIN_SAVE_TIMEOUT
    IN  /\ status = "running"
        /\ \A s \in sources : s.remaining >= d
        /\ objects' = [o \in DOMAIN objects |->
                          [objects[o] EXCEPT !.m_timer = Elapse(@, d, LIBPINYIN_SAVE_TIMEOUT)]]
        /\ sources' = {[s EXCEPT !.remaining = @ - d] : s \in sources}
        /\ hist' = [hist EXCEPT !.since_modified =
                        IF sources = {} THEN @ ELSE Elapse(@, d, 3 * LIBPINYIN_SAVE_TIMEOUT)]
        /\ lastCall' = Op("advance", "", 0, {}, "", << >>, 0)
        /\ UNCHANGED <<status, m_instance, contexts, instances>>

-----------------------------------------------------------------------------
(* Specifications *)

\* init and finalize
Lifecycle ==
    \/ init
    \/ \E rets \in [Families -> BOOLEAN] : finalize(rets)

\* allocations and releases, the Config returning a selector of pmaps (Pinyin)
\* or cmaps (Bopomofo) and an option of options, the callers holding at most
\* limit instances
Allocation(pmaps, cmaps, options, limit) ==
    \/ \E retval \in MkdirResults, init_ok \in BOOLEAN, map \in pmaps,
          option \in options, deref \in BOOLEAN :
          /\ BagCardinality(instances) < limit
          /\ allocPinyinInstance(retval, init_ok, map, option, deref)
    \/ \E retval \in MkdirResults, init_ok \in BOOLEAN, map \in cmaps,
          option \in options, deref \in BOOLEAN :
          /\ BagCardinality(instances) < limit
          /\ allocChewingInstance(retval, init_ok, map, option, deref)
    \/ \E i \in BagToSet(instances) : i.family = "Pinyin" /\ freePinyinInstance(i.context)
    \/ \E i \in BagToSet(instances) : i.family = "Chewing" /\ freeChewingInstance(i.context)

\* the debounced save: modified(), the main loop dispatching the timeout
\* source, and time
Saving ==
    \/ \E late \in BOOLEAN : modified(late)
    \/ \E s \in sources, rets \in [Families -> BOOLEAN] : timeoutCallback(s, rets)
    \/ Advance

\* every operation with every input
Next ==
    \/ Lifecycle
    \/ Allocation(PinyinSelectors, ChewingSelectors, ConfigOptions, MaxOutstanding)
    \/ Saving

Spec == Init /\ [][Next]_vars

\* the backend's life and its contexts: every operation but the debounced save,
\* which reads and writes neither a context nor an instance
NextContexts ==
    \/ Lifecycle
    \/ Allocation(PinyinSelectors, ChewingSelectors, ConfigOptions, MaxInstances)

SpecContexts == Init /\ [][NextContexts]_vars

\* the instances: as SpecContexts, the Config returning one value and the
\* callers holding more instances
NextInstances == Lifecycle \/ Allocation({0}, {0}, {{}}, MaxOutstanding)

SpecInstances == Init /\ [][NextInstances]_vars

\* Config::option () with every combination of a flag the backend leaves
\* alone and the flag setPinyinOptions forces
FlagValues == SUBSET {"DYNAMIC_ADJUST", USE_RESPLIT_TABLE}

\* the flags: as SpecContexts, the Config returning one selector of the table
\* and one beyond it, and every flag value
NextFlags == Lifecycle \/ Allocation({0, 6}, {0, 4}, FlagValues, MaxInstances)

SpecFlags == Init /\ [][NextFlags]_vars

\* the releases: every operation, the Config returning one value, the callers
\* holding more instances, modified () called on the clock's points
NextRelease ==
    \/ Lifecycle
    \/ Allocation({0}, {0}, {{}}, MaxOutstanding)
    \/ modified(FALSE)
    \/ \E s \in sources, rets \in [Families -> BOOLEAN] : timeoutCallback(s, rets)
    \/ Advance

SpecRelease == Init /\ [][NextRelease]_vars

\* the debounced save: every operation, the Config returning one value (the
\* save reads whether a context exists, not what its options are)
NextSave == Lifecycle \/ Allocation({0}, {0}, {{}}, MaxInstances) \/ Saving

SpecSave == Init /\ [][NextSave]_vars

\* the debounced save with a main loop that keeps running: time passes, and a
\* due source is dispatched
SpecSaveFair ==
    /\ SpecSave
    /\ WF_vars(Advance)
    /\ WF_vars(\E s \in sources, rets \in [Families -> BOOLEAN] : timeoutCallback(s, rets))

-----------------------------------------------------------------------------
(* Properties *)

\* the live backend: the object m_instance owns
Live == m_instance # NULL
Backend == objects[m_instance]

\* the most recent operation, and the step that is an operation
Did(op) == lastCall.op = op
Does(op) == lastCall'.op = op

\* C1: init() called while a backend is registered fails its assertion (the
\* process aborts), every time, and leaves the registered object, its
\* contexts, its instances and its timeout source as they were.
C1_SecondInitAborts ==
    [][(Live /\ Does("init")) =>
          /\ status' = "aborted"
          /\ UNCHANGED <<m_instance, objects, contexts, instances, sources>>]_vars

\* a second init() has aborted the process, the registered backend holding a
\* context and a scheduled save
C1_Witness ==
    /\ status = "aborted" /\ Did("init") /\ Live
    /\ Backend.m_pinyin_context # NULL
    /\ Backend.m_timeout_id # 0

\* C2: at most one LibPinyinBackEnd object exists, every constructed and not
\* yet destroyed object counted.
C2_AtMostOneObject == Cardinality(DOMAIN objects) <= 1

\* the live backend after the step
BackendAfter == objects'[m_instance']

\* the step is allocInstance (f) on the live backend
Allocates(f) == Live /\ Does("allocInstance") /\ lastCall'.family = f

\* C3 as stated: the context of a family exists if and only if allocInstance
\* was called for the family since the backend was constructed.
C3_ContextIffAllocated ==
    Live => \A f \in Families : (ContextOf(Backend, f) # NULL) <=> hist.allocs[f]

\* C3: the context of a family exists if and only if a pinyin_init call made
\* for the family since the backend was constructed has returned a context,
\* and such a call is made only by allocInstance for that family; no context
\* exists right after an init() that constructed the backend, and an
\* allocation for one family leaves the context of the other family as it was.
C3_ContextIffCreated ==
    /\ [](Live => \A f \in Families :
             /\ (ContextOf(Backend, f) # NULL) <=> hist.created[f] > 0
             /\ hist.created[f] > 0 => hist.allocs[f]
             /\ ContextOf(Backend, f) # NULL => ContextOf(Backend, f) \in DOMAIN contexts
             /\ Did("init") /\ status = "running" => ContextOf(Backend, f) = NULL)
    /\ [][\A f \in Families : Allocates(f) =>
             \A g \in Families \ {f} :
                 /\ ContextOf(BackendAfter, g) = ContextOf(Backend, g)
                 /\ hist'.created[g] = hist.created[g]
                 /\ g = "Chewing" => DOMAIN contexts' \ DOMAIN contexts
                                        \subseteq {BackendAfter.m_pinyin_context}
                 /\ g = "Pinyin" => DOMAIN contexts' \ DOMAIN contexts
                                       \subseteq {BackendAfter.m_chewing_context}]_vars

\* the Pinyin context exists; allocChewingInstance was called, pinyin_init
\* returned NULL and there is no Bopomofo context
C3_Witness ==
    /\ Live /\ Did("allocInstance") /\ lastCall.family = "Chewing"
    /\ Backend.m_pinyin_context # NULL
    /\ hist.allocs["Chewing"] /\ Backend.m_chewing_context = NULL
    /\ hist.created["Pinyin"] = 1 /\ hist.created["Chewing"] = 0

\* C4 as stated: pinyin_init is called at most once per family in one backend
\* lifetime, whatever it returns.
C4_InitAtMostOnce == \A f \in Families : hist.init_calls[f] <= 1

\* C4: an allocation calls pinyin_init exactly when the family has no context
\* (none yet, or the earlier calls returned NULL); once a call has returned a
\* context it is never called again in that backend lifetime, no second
\* context is created, and every later allocation for the family, also while
\* earlier instances are outstanding, draws its instance from that context.
C4_InitOnceCreated ==
    [][\A f \in Families : Allocates(f) =>
          LET before == ContextOf(Backend, f)
              inits  == {i \in 1 .. Len(lastCall'.calls) :
                            lastCall'.calls[i].fn = "pinyin_init"}
          IN  /\ before # NULL =>
                    /\ inits = {}
                    /\ hist'.init_calls[f] = hist.init_calls[f]
                    /\ ContextOf(BackendAfter, f) = before
                    /\ DOMAIN contexts' = DOMAIN contexts
                    /\ instances' = instances (+) SetToBag({[family |-> f, context |-> before]})
              /\ before = NULL =>
                    /\ Cardinality(inits) = 1
                    /\ hist'.init_calls[f] = hist.init_calls[f] + 1
              /\ hist'.created[f] <= 1]_vars

\* pinyin_init was called twice for a family, the second call returned the
\* context, and two instances of that context are outstanding
C4_Witness ==
    /\ Live /\ Did("allocInstance")
    /\ \E f \in Families :
          /\ ContextOf(Backend, f) # NULL
          /\ hist.init_calls[f] = 2 /\ hist.created[f] = 1
          /\ CopiesIn([family |-> f, context |-> ContextOf(Backend, f)], instances) = 2

\* the selectors the table of family f holds, and the scheme it maps one to
Selectors(f) == IF f = "Pinyin" THEN 0 .. 5 ELSE 0 .. 3
Mapped(f, map) ==
    IF f = "Pinyin"
    THEN double_pinyin_options[CHOOSE i \in DOMAIN double_pinyin_options :
             double_pinyin_options[i].double_pinyin_keyboard = map].scheme
    ELSE chewing_options[CHOOSE i \in DOMAIN chewing_options :
             chewing_options[i].bopomofo_keyboard = map].scheme

\* the engine's set-scheme call of family f, and the flags pushed for option
SetScheme(f) ==
    IF f = "Pinyin" THEN "pinyin_set_double_pinyin_scheme" ELSE "pinyin_set_chewing_scheme"
Flags(f, option) == IF f = "Pinyin" THEN option \cup {USE_RESPLIT_TABLE} ELSE option

\* C5: every allocInstance (f) that has a context, newly created or already
\* existing, with the Configuration's selector in the table, sets the scheme
\* the table maps the selector to and then the flags of the Configuration's
\* option, both before pinyin_alloc_instance; afterwards the context has that
\* scheme and those flags, and an existing context is the same context: none
\* is created.
C5_SchemeReapplied ==
    [][\A f \in Families :
          (Allocates(f) /\ lastCall'.ret # NULL /\ lastCall'.map \in Selectors(f)) =>
          LET c      == lastCall'.ret
              calls  == lastCall'.calls
              scheme == Mapped(f, lastCall'.map)
              flags  == Flags(f, lastCall'.option)
              before == ContextOf(Backend, f)
          IN  /\ contexts'[c].scheme = scheme
              /\ contexts'[c].options = flags
              /\ \E i, j \in 1 .. Len(calls) :
                    /\ i < j /\ j < Len(calls)
                    /\ calls[i] = Call(SetScheme(f), f, scheme, {}, 1)
                    /\ calls[j] = Call("pinyin_set_options", f, "", flags, 1)
                    /\ calls[Len(calls)] = Call("pinyin_alloc_instance", f, "", {}, c)
              /\ before # NULL =>
                    /\ c = before
                    /\ DOMAIN contexts' = DOMAIN contexts
                    /\ hist'.init_calls = hist.init_calls]_vars

\* the second allocation for a family, the selector changed to another value
\* of the table in between: the context, created once, had another scheme of
\* the table before and has the newly selected one now
C5_Witness ==
    /\ Live /\ Did("allocInstance") /\ lastCall.ret # NULL
    /\ lastCall.map \in Selectors(lastCall.family)
    /\ lastCall.pre \notin {"", "DEFAULT"}
    /\ lastCall.pre # contexts[lastCall.ret].scheme
    /\ contexts[lastCall.ret].scheme = Mapped(lastCall.family, lastCall.map)
    /\ hist.init_calls[lastCall.family] = 1

\* C6: an allocInstance (f) that has a context, with the Configuration's
\* selector outside the table, makes no set-scheme call and leaves the
\* context's scheme what it was before the allocation (the engine's default
\* for a context just created); the flags are pushed all the same.
C6_UnmatchedSelectorKeepsScheme ==
    [][\A f \in Families :
          (Allocates(f) /\ lastCall'.ret # NULL /\ lastCall'.map \notin Selectors(f)) =>
          LET c      == lastCall'.ret
              calls  == lastCall'.calls
              flags  == Flags(f, lastCall'.option)
              before == ContextOf(Backend, f)
          IN  /\ \A i \in 1 .. Len(calls) :
                    calls[i].fn \notin {"pinyin_set_double_pinyin_scheme",
                                        "pinyin_set_chewing_scheme"}
              /\ contexts'[c].scheme =
                    IF before # NULL THEN contexts[before].scheme ELSE "DEFAULT"
              /\ \E j \in 1 .. Len(calls) :
                    calls[j] = Call("pinyin_set_options", f, "", flags, 1)
              /\ contexts'[c].options = flags]_vars

\* an allocation with a selector outside the table, for a context whose scheme
\* an earlier allocation had set: the scheme is still that one, the flags are
\* those of the Configuration's option now
C6_Witness ==
    /\ Live /\ Did("allocInstance") /\ lastCall.ret # NULL
    /\ lastCall.map \notin Selectors(lastCall.family)
    /\ lastCall.pre \notin {"", "DEFAULT"}
    /\ contexts[lastCall.ret].scheme = lastCall.pre
    /\ lastCall.option = {"DYNAMIC_ADJUST"}
    /\ contexts[lastCall.ret].options = Flags(lastCall.family, lastCall.option)

\* the positions of the calls of fn (for family f) among calls
Calls(fn, calls) == {i \in 1 .. Len(calls) : calls[i].fn = fn}
CallsFor(fn, f, calls) == {i \in Calls(fn, calls) : calls[i].family = f}

\* whole seconds since the most recent modified() call
SinceModified == g_timer_elapsed(hist.since_modified).whole

\* C7: a modified() call made while a save is scheduled registers no second
\* source, so at most one source is ever registered; a dispatch of the
\* source saves exactly when at least LIBPINYIN_SAVE_TIMEOUT whole seconds
\* have passed since the most recent modified() call, and that save removes
\* the source and ends the schedule; a dispatch before that saves nothing and
\* keeps the source.
C7_DebounceFromLastModified ==
    [][/\ (Live /\ Does("modified") /\ Backend.m_timeout_id # 0) =>
             /\ sources' = sources
             /\ BackendAfter.m_timeout_id = Backend.m_timeout_id
             /\ Calls("g_timeout_add_seconds", lastCall'.calls) = {}
       /\ Cardinality(sources') <= 1
       /\ (Live /\ Does("timeoutCallback")) =>
             LET saved == Calls("saveUserDB", lastCall'.calls) # {}
             IN  /\ saved <=> SinceModified >= LIBPINYIN_SAVE_TIMEOUT
                 /\ saved => sources' = {} /\ BackendAfter.m_timeout_id = 0
                 /\ ~saved => sources' # {} /\ BackendAfter.m_timeout_id # 0]_vars

\* the timer-driven save of a schedule in which modified() was called again a
\* fraction of a second after the source was registered: the first dispatch
\* found 299 s and saved nothing, this one finds 599 s and saves
C7_Witness ==
    /\ Live /\ Did("timeoutCallback") /\ lastCall.ret = 0
    /\ lastCall.map = 2 * LIBPINYIN_SAVE_TIMEOUT - 1
    /\ Calls("saveUserDB", lastCall.calls) # {}
    /\ sources = {} /\ Backend.m_timeout_id = 0

\* C8: finalize() on a backend with a save scheduled calls saveUserDB once
\* (pinyin_save for each context that exists) and g_source_remove for the
\* pending source, all of it before any pinyin_fini, however little time has
\* passed since the last modified() call; afterwards no source is registered
\* and the contexts are released.
C8_FinalizeSavesFirst ==
    [][(Live /\ Does("finalize") /\ Backend.m_timeout_id # 0) =>
          LET calls == lastCall'.calls
              saves == Calls("saveUserDB", calls) \cup Calls("pinyin_save", calls)
                           \cup Calls("g_source_remove", calls)
          IN  /\ Cardinality(Calls("saveUserDB", calls)) = 1
              /\ \E j \in 1 .. Len(calls) :
                    calls[j] = Call("g_source_remove", "", "", {}, Backend.m_timeout_id)
              /\ \A k \in Calls("pinyin_fini", calls) : \A i \in saves : i < k
              /\ \A f \in Families : ContextOf(Backend, f) # NULL =>
                    /\ CallsFor("pinyin_save", f, calls) # {}
                    /\ \E k \in 1 .. Len(calls) :
                          calls[k] = Call("pinyin_fini", f, "", {}, ContextOf(Backend, f))
                    /\ ContextOf(Backend, f) \notin DOMAIN contexts'
              /\ sources' = {}
              /\ m_instance' = NULL]_vars

\* finalize() called in the interval of the modified() call that scheduled
\* the save: the context was saved, the source removed, the context released
C8_Witness ==
    /\ ~Live /\ Did("finalize") /\ lastCall.map = 0
    /\ Calls("g_source_remove", lastCall.calls) # {}
    /\ Calls("pinyin_save", lastCall.calls) # {}
    /\ Calls("pinyin_fini", lastCall.calls) # {}
    /\ sources = {}

\* C9: every saveUserDB() call, from the timeout callback or the destructor,
\* calls pinyin_save once for each family whose context exists and not at all
\* for a family without a context, Pinyin first, the Bopomofo context also
\* when the Pinyin save failed; it returns TRUE, so the callback that saved
\* ends the schedule whatever pinyin_save returned.
C9_SaveEachExistingContext ==
    [][(Live /\ Calls("saveUserDB", lastCall'.calls) # {}) =>
          LET calls == lastCall'.calls
          IN  /\ \A f \in Families :
                    Cardinality(CallsFor("pinyin_save", f, calls)) =
                        IF ContextOf(Backend, f) # NULL THEN 1 ELSE 0
              /\ \A i \in CallsFor("pinyin_save", "Pinyin", calls) :
                    \A j \in CallsFor("pinyin_save", "Chewing", calls) : i < j
              /\ \A i \in Calls("saveUserDB", calls) : calls[i].ret = 1
              /\ Does("timeoutCallback") =>
                    /\ lastCall'.ret = 0
                    /\ sources' = {}
                    /\ BackendAfter.m_timeout_id = 0]_vars

\* a timer-driven save with both contexts: pinyin_save failed for the Pinyin
\* context, was called for the Bopomofo context all the same, and the
\* callback ended the schedule
C9_Witness ==
    /\ Live /\ Did("timeoutCallback") /\ lastCall.ret = 0
    /\ Len(lastCall.calls) = 3
    /\ lastCall.calls[2] = Call("pinyin_save", "Pinyin", "", {}, 0)
    /\ lastCall.calls[3].fn = "pinyin_save" /\ lastCall.calls[3].family = "Chewing"
    /\ Backend.m_timeout_id = 0

\* C10: for a live backend m_timeout_id is non-zero exactly when modified()
\* was called and no save has run since, and exactly when the main loop holds
\* a source with that id for this backend; the main loop never holds another
\* source, nor more than one.
C10_TimeoutIdIffScheduled ==
    Live =>
        LET id == Backend.m_timeout_id
        IN  /\ (id # 0) <=> hist.dirty
            /\ (id # 0) <=> (\E s \in sources : s.id = id /\ s.data = m_instance)
            /\ id = 0 => sources = {}
            /\ Cardinality(sources) <= 1

\* a save is scheduled and not completed: the source was dispatched before
\* the quiet interval had passed and stays registered
C10_Witness ==
    /\ Live /\ Did("timeoutCallback") /\ lastCall.ret = 1
    /\ Backend.m_timeout_id # 0 /\ hist.dirty
    /\ \E s \in sources : s.id = Backend.m_timeout_id /\ s.remaining = LIBPINYIN_SAVE_TIMEOUT

\* C11: a dispatch of the timeout source does one of two things.  If the whole
\* seconds m_timer has run since it was last started are at least
\* LIBPINYIN_SAVE_TIMEOUT, the callback calls saveUserDB once, sets
\* m_timeout_id to 0 and returns FALSE: the source is removed.  Otherwise it
\* makes no call, leaves m_timeout_id as it was and returns TRUE: the source
\* stays, to be dispatched again after another interval.
C11_CallbackSavesOrContinues ==
    [][(Live /\ Does("timeoutCallback")) =>
          LET whole == g_timer_elapsed(Backend.m_timer).whole
              calls == lastCall'.calls
          IN  IF whole >= LIBPINYIN_SAVE_TIMEOUT
              THEN /\ Cardinality(Calls("saveUserDB", calls)) = 1
                   /\ BackendAfter.m_timeout_id = 0
                   /\ lastCall'.ret = 0
                   /\ sources' = {}
              ELSE /\ calls = << >>
                   /\ BackendAfter.m_timeout_id = Backend.m_timeout_id
                   /\ BackendAfter.m_timeout_id # 0
                   /\ lastCall'.ret = 1
                   /\ sources' = {[s EXCEPT !.remaining = LIBPINYIN_SAVE_TIMEOUT] :
                                     s \in sources}
                   /\ contexts' = contexts]_vars

\* the callback found 299 s and a fraction on the timer: it saved nothing and
\* returned TRUE
C11_Witness ==
    /\ Live /\ Did("timeoutCallback")
    /\ lastCall.map = LIBPINYIN_SAVE_TIMEOUT - 1
    /\ lastCall.calls = << >> /\ lastCall.ret = 1
    /\ g_timer_elapsed(Backend.m_timer).fraction
    /\ sources # {}

\* the per-user directory of family f
UserDir(f) == IF f = "Pinyin" THEN PinyinUserDir ELSE ChewingUserDir

\* C12: where an allocation creates the context, pinyin_init is given the
\* family's per-user directory if g_mkdir_with_parents succeeded and no user
\* directory if and only if it failed.
C12_UserDirUnlessMkdirFailed ==
    \A i, j \in 1 .. Len(lastCall.calls) :
        LET mkdir == lastCall.calls[i]
            pinit == lastCall.calls[j]
        IN  (mkdir.fn = "g_mkdir_with_parents" /\ pinit.fn = "pinyin_init") =>
                pinit.arg = IF mkdir.ret = 0 THEN UserDir(pinit.family) ELSE ""

\* C13 as stated: every allocation pushes flags to the context.
C13_FlagsPushedOnEveryAllocation ==
    Did("allocInstance") => Calls("pinyin_set_options", lastCall.calls) # {}

\* C13: every allocation that has a context, whatever the selector and
\* whatever the Configuration's flags, calls pinyin_set_options once, before
\* pinyin_alloc_instance: for a Pinyin context with the Configuration's flags
\* and USE_RESPLIT_TABLE, for a Bopomofo context with exactly the
\* Configuration's flags; the context then has those flags.  An allocation
\* whose pinyin_init returned NULL pushes nothing.
C13_FlagsPushed ==
    [][\A f \in Families : Allocates(f) =>
          LET calls  == lastCall'.calls
              pushes == Calls("pinyin_set_options", calls)
              flags  == IF f = "Pinyin"
                        THEN lastCall'.option \cup {USE_RESPLIT_TABLE}
                        ELSE lastCall'.option
          IN  IF lastCall'.ret # NULL
              THEN /\ Cardinality(pushes) = 1
                   /\ \A i \in pushes :
                         /\ calls[i] = Call("pinyin_set_options", f, "", flags, 1)
                         /\ \A k \in Calls("pinyin_alloc_instance", calls) : i < k
                   /\ contexts'[lastCall'.ret].options = flags
              ELSE pushes = {}]_vars

\* both contexts exist and were last given the same Configuration flags; the
\* Pinyin context has USE_RESPLIT_TABLE besides, the Bopomofo context, whose
\* allocation on the existing context came last, has not
C13_Witness ==
    /\ Live /\ Did("allocInstance") /\ lastCall.family = "Chewing"
    /\ lastCall.pre # "" /\ lastCall.option = {"DYNAMIC_ADJUST"}
    /\ Backend.m_pinyin_context # NULL /\ Backend.m_chewing_context # NULL
    /\ contexts[Backend.m_pinyin_context].options = {"DYNAMIC_ADJUST", USE_RESPLIT_TABLE}
    /\ contexts[Backend.m_chewing_context].options = {"DYNAMIC_ADJUST"}

\* C14: freeInstance releases the one instance it is given, with one
\* pinyin_free_instance call: the contexts with their schemes and flags, the
\* backend's members (m_timeout_id, m_timer, the context pointers), the
\* registered sources and every other outstanding instance are as before, and
\* neither saveUserDB nor g_timeout_add_seconds is called.
C14_FreeReleasesOneInstance ==
    [][Does("freeInstance") =>
          /\ UNCHANGED <<status, m_instance, objects, contexts, sources, hist>>
          /\ \E i \in BagToSet(instances) :
                /\ i.family = lastCall'.family
                /\ instances' = instances (-) SetToBag({i})
                /\ lastCall'.calls =
                       << Call("pinyin_free_instance", i.family, "", {}, i.context) >>
          /\ BagCardinality(instances') = BagCardinality(instances) - 1]_vars

\* an instance was released while a save is scheduled, the timer has run and
\* another instance of the same context is outstanding
C14_Witness ==
    /\ Live /\ Did("freeInstance")
    /\ Backend.m_timeout_id # 0 /\ sources # {}
    /\ Backend.m_timer.since > 0
    /\ \E i \in BagToSet(instances) :
          /\ i.family = lastCall.family
          /\ i.context = ContextOf(Backend, i.family)
          /\ lastCall.calls[1].ret = i.context

\* the contexts the live backend holds
Held == {ContextOf(Backend, f) : f \in Families} \ {NULL}

\* C15: the engine's contexts are those the live backend holds, and none when
\* no backend is live.  No operation on a live backend but finalize() calls
\* pinyin_fini or makes a context disappear; finalize() calls pinyin_fini
\* once for each context the backend holds, with that context, and not at all
\* for a family without a context, and no context is left.
C15_ContextsFinalizedOnce ==
    /\ [](IF Live THEN DOMAIN contexts = Held ELSE DOMAIN contexts = {})
    /\ [][Live =>
            LET calls == lastCall'.calls
            IN  IF Does("finalize")
                THEN /\ \A f \in Families :
                           LET finis == CallsFor("pinyin_fini", f, calls)
                           IN  IF ContextOf(Backend, f) # NULL
                               THEN /\ Cardinality(finis) = 1
                                    /\ \A k \in finis : calls[k].ret = ContextOf(Backend, f)
                               ELSE finis = {}
                     /\ DOMAIN contexts' = {}
                ELSE /\ Calls("pinyin_fini", calls) = {}
                     /\ DOMAIN contexts \subseteq DOMAIN contexts'
                     /\ \A f \in Families : ContextOf(Backend, f) # NULL =>
                           ContextOf(BackendAfter, f) = ContextOf(Backend, f)]_vars

\* finalize() has destroyed a backend that held both contexts: pinyin_fini was
\* called for each of them, and an instance of one of them is still
\* outstanding
C15_Witness ==
    /\ ~Live /\ Did("finalize")
    /\ Cardinality(Calls("pinyin_fini", lastCall.calls)) = 2
    /\ \A i, j \in Calls("pinyin_fini", lastCall.calls) :
          i # j => lastCall.calls[i].ret # lastCall.calls[j].ret
    /\ contexts = << >>
    /\ \E i \in BagToSet(instances) : i.context = Dangling

\* a save is scheduled on the live backend of a running process
Scheduled == status = "running" /\ Live /\ hist.dirty

\* C16: with the main loop running, unless modified() is called again and
\* again, a scheduled save does not stay scheduled for ever: the callback
\* saves (or finalize() or the end of the process comes first).  A save by
\* the callback comes less than 2 * LIBPINYIN_SAVE_TIMEOUT seconds after the
\* most recent modified() call; after it m_timeout_id is 0 and no source is
\* registered, so the callback is not dispatched again.
C16_SaveWithinTwoIntervals ==
    /\ [][(Live /\ Does("timeoutCallback") /\ Calls("saveUserDB", lastCall'.calls) # {}) =>
             /\ SinceModified < 2 * LIBPINYIN_SAVE_TIMEOUT
             /\ BackendAfter.m_timeout_id = 0
             /\ sources' = {}
             /\ ~hist'.dirty]_vars
    /\ ([]<>(~Scheduled) \/ []<>Did("modified"))

\* the callback has saved a context 599 s and a fraction after the last
\* modified() call, and nothing is scheduled any more
C16_Witness ==
    /\ Live /\ Did("timeoutCallback") /\ ~hist.dirty
    /\ lastCall.map >= 2 * LIBPINYIN_SAVE_TIMEOUT - 1
    /\ Calls("pinyin_save", lastCall.calls) # {}
    /\ sources = {}

\* C17: while modified() has been called on the live backend and saveUserDB()
\* not since, a save is scheduled: m_timeout_id is the id of a registered
\* source of this backend.  So finalize() after such a modified() call calls
\* saveUserDB before the first pinyin_fini.
C17_NoModificationLost ==
    /\ []((Live /\ hist.dirty) =>
             /\ Backend.m_timeout_id # 0
             /\ \E s \in sources : s.id = Backend.m_timeout_id /\ s.data = m_instance)
    /\ [][(Live /\ hist.dirty /\ Does("finalize")) =>
             LET calls == lastCall'.calls
             IN  /\ Calls("saveUserDB", calls) # {}
                 /\ \A k \in Calls("pinyin_fini", calls) :
                       \E i \in Calls("saveUserDB", calls) : i < k
                 /\ \A f \in Families : ContextOf(Backend, f) # NULL =>
                       \E i \in CallsFor("pinyin_save", f, calls) :
                           \A k \in CallsFor("pinyin_fini", f, calls) : i < k]_vars

\* finalize() 299 s and a fraction after the last modified() call, the
\* source dispatched once without a save in between: the destructor saved the
\* context before releasing it
C17_Witness ==
    /\ ~Live /\ Did("finalize")
    /\ lastCall.map = LIBPINYIN_SAVE_TIMEOUT - 1
    /\ Calls("saveUserDB", lastCall.calls) # {}
    /\ \E i \in Calls("pinyin_save", lastCall.calls) :
          \E k \in Calls("pinyin_fini", lastCall.calls) : i < k

\* C18: every registered source carries the live backend, an object that
\* exists; finalize() leaves no source registered, whether the source was
\* due or not, and no dispatch of the callback finds a destroyed object.
C18_NoCallbackOutlivesBackend ==
    /\ [](/\ \A s \in sources : Live /\ s.data = m_instance /\ s.data \in DOMAIN objects
          /\ ~Live => sources = {}
          /\ ~(Did("timeoutCallback") /\ status = "crashed"))
    /\ [][Does("finalize") => sources' = {}]_vars

\* finalize() has destroyed a backend whose source was due, 300 s after the
\* modified() call that registered it: the source was removed, not dispatched
C18_Witness ==
    /\ ~Live /\ Did("finalize")
    /\ lastCall.map = LIBPINYIN_SAVE_TIMEOUT
    /\ Calls("g_source_remove", lastCall.calls) # {}
    /\ sources = {}
    /\ HeapBackend \notin DOMAIN objects

\* C19: finalize() leaves no backend registered: the object is destroyed, no
\* context and no source is left.  init() with no backend registered
\* succeeds, whatever the previous backend held: the process runs on, and the
\* registered object is a new one with m_timeout_id 0, no Pinyin and no
\* Bopomofo context and a timer just started.  finalize() with no backend
\* registered changes nothing.
C19_LifecycleRepeats ==
    [][/\ (Live /\ Does("finalize")) =>
             /\ m_instance' = NULL
             /\ m_instance \notin DOMAIN objects'
             /\ DOMAIN contexts' = {}
             /\ sources' = {}
       /\ (~Live /\ Does("init")) =>
             /\ status' = "running"
             /\ m_instance' # NULL
             /\ DOMAIN objects' = DOMAIN objects \cup {m_instance'}
             /\ m_instance' \notin DOMAIN objects
             /\ BackendAfter.m_timeout_id = 0
             /\ BackendAfter.m_pinyin_context = NULL
             /\ BackendAfter.m_chewing_context = NULL
             /\ g_timer_elapsed(BackendAfter.m_timer) = [whole |-> 0, fraction |-> FALSE]
             /\ UNCHANGED <<contexts, instances, sources>>
       /\ (~Live /\ Does("finalize")) =>
             /\ lastCall'.calls = << >>
             /\ UNCHANGED <<status, m_instance, objects, contexts, instances, sources>>]_vars

\* a second backend, just constructed by init(): the first one had a context,
\* of which an instance is still outstanding
C19_Witness ==
    /\ Live /\ Did("init") /\ status = "running"
    /\ Backend.m_timeout_id = 0
    /\ Backend.m_pinyin_context = NULL /\ Backend.m_chewing_context = NULL
    /\ \E i \in BagToSet(instances) : i.context = Dangling
    /\ sources = {} /\ contexts = << >>

====
